---- MODULE Spec2Model ----
(***************************************************************************)
(* Model of transcribe_audio (src/subtitles.py, lines 35-64): the          *)
(* streaming transcription loop that feeds fixed-size windows of a PCM     *)
(* buffer to a Vosk recognizer and maps the words of every finalized,      *)
(* non-empty result onto an absolute timeline.                             *)
(*                                                                         *)
(* Times are integers counting tenths of a second, so the word (0.5, 0.9)  *)
(* is (5, 9) and the 3-second step of line 61 is 30.  The audio buffer is  *)
(* represented by its length: the loop only ever slices it, and what the   *)
(* recognizer answers for a slice is the environment's choice.             *)
(***************************************************************************)
EXTENDS Integers, Sequences, FiniteSets

VARIABLES
    pc,             \* position in transcribe_audio: "init", "loop", "returned", "raised"
    audio_len,      \* len(audio_data)
    sample_rate,    \* the sample_rate argument
    i,              \* the loop variable of line 48
    subtitles,      \* the list built at lines 44 and 59
    segment_start,  \* the running offset of lines 46 and 61
    retval,         \* what the caller receives from line 64
    error,          \* the exception that left the function, if any
    fed,            \* the chunks handed to AcceptWaveform so far, in call order
    results         \* what the recognizer answered to each of those calls

vars == <<pc, audio_len, sample_rate, i, subtitles, segment_start, retval, error, fed, results>>

-----------------------------------------------------------------------------
(* Bounds of the model *)

MaxWindows == 3

MaxWords == 2

(* Program constants *)

chunk_size == 8000

SegmentStep == 30

-----------------------------------------------------------------------------
(* Inputs *)

Min(a, b) == IF a <= b THEN a ELSE b

\* Buffer lengths: empty, whole multiples of the window, and one length whose
\* last window is short (20000 samples when MaxWindows is 3).
AudioLens ==
    {0} \cup {k * chunk_size : k \in 1..MaxWindows}
        \cup {(MaxWindows - 1) * chunk_size + (chunk_size \div 2)}

SampleRates == {16000, 44100}

\* Words the recognizer may report, with times relative to its own segment
\* clock.  Every word has end >= start >= 0.
EngineWords ==
    { [word |-> "hello", start |-> 0,  end |-> 4],
      [word |-> "world", start |-> 5,  end |-> 9],
      [word |-> "again", start |-> 32, end |-> 35] }

\* A word list of one result: in engine order, each word ending before the
\* next one starts.
WordLists ==
    { ws \in UNION { [1..n -> EngineWords] : n \in 0..MaxWords } :
        \A k \in 1..(Len(ws) - 1) : ws[k].end <= ws[k + 1].start }

EmptyText == << >>

BlankText == <<" ", "\t">>

HelloWorldText == <<"h", "e", "l", "l", "o", " ", "w", "o", "r", "l", "d">>

\* The "text" field of a result, as a sequence of characters.
Texts == {EmptyText, BlankText, HelloWorldText}

-----------------------------------------------------------------------------
(* Pure helpers of the loop body *)

IsSpace(c) == c \in {" ", "\t", "\n", "\r"}

RECURSIVE LStrip(_)
LStrip(s) ==
    IF s = << >> THEN s
    ELSE IF IsSpace(Head(s)) THEN LStrip(Tail(s)) ELSE s

RECURSIVE RStrip(_)
RStrip(s) ==
    IF s = << >> THEN s
    ELSE IF IsSpace(s[Len(s)]) THEN RStrip(SubSeq(s, 1, Len(s) - 1)) ELSE s

\* str.strip()
Strip(s) == RStrip(LStrip(s))

\* Faulty variant of TextIsNonEmpty: the text is tested without strip().
TextIsNonEmptyNoStrip(text) == text # << >>

\* line 53: the truth value of result["text"].strip()
TextIsNonEmpty(text) == Strip(text) # << >>

\* Faulty variant of MoreWindows: the range bound is taken inclusive.
MoreWindowsInclusive(idx) == idx <= audio_len

\* line 48: range(0, len(audio_data), chunk_size) still has a value at idx
MoreWindows(idx) == idx < audio_len

\* Faulty variant of Chunk: the slice end is not clamped to the buffer length.
ChunkNoClamp(idx) == [lo |-> idx, hi |-> idx + chunk_size]

\* line 49: audio_data[i:i+chunk_size], the half-open sample range [lo, hi)
Chunk(idx) == [lo |-> idx, hi |-> Min(idx + chunk_size, audio_len)]

\* Faulty variant of EmitWords: the offset is not added to the end time.
EmitWordsEndNotShifted(off, words) ==
    [k \in 1..Len(words) |-> <<off + words[k].start, words[k].end, words[k].word>>]

\* Faulty variant of EmitWords: the words are appended in reverse order.
EmitWordsReversed(off, words) ==
    [k \in 1..Len(words) |->
        <<off + words[Len(words) + 1 - k].start,
          off + words[Len(words) + 1 - k].end,
          words[Len(words) + 1 - k].word>>]

\* lines 55-59: the tuples appended for one finalized result
EmitWords(off, words) ==
    [k \in 1..Len(words) |->
        <<off + words[k].start, off + words[k].end, words[k].word>>]

\* Faulty variant of AdvanceOffset: line 61 indented into the word loop.
AdvanceOffsetPerWord(off, words) == off + SegmentStep * Len(words)

\* line 61: segment_start += 3, once per finalized non-empty result
AdvanceOffset(off, words) == off + SegmentStep

-----------------------------------------------------------------------------
(* Recognizer answers *)

NotFinal == [kind |-> "notfinal", text |-> << >>, words |-> << >>]

Failure == [kind |-> "error", text |-> << >>, words |-> << >>]

\* json.loads(recognizer.Result()); a result without a "result" key reads as
\* an empty word list (line 55).
FinalResult(text, words) == [kind |-> "final", text |-> text, words |-> words]

NoReturn == [has |-> FALSE, val |-> << >>]

-----------------------------------------------------------------------------
(* State machine *)

Init ==
    /\ pc = "init"
    /\ audio_len \in AudioLens
    /\ sample_rate \in SampleRates
    /\ i = 0
    /\ subtitles = << >>
    /\ segment_start = 0
    /\ retval = NoReturn
    /\ error = "none"
    /\ fed = << >>
    /\ results = << >>

\* lines 37-46: the model and the recognizer are created, the accumulators reset
CreateSession ==
    /\ pc = "init"
    /\ pc' = "loop"
    /\ i' = 0
    /\ subtitles' = << >>
    /\ segment_start' = 0
    /\ UNCHANGED <<audio_len, sample_rate, retval, error, fed, results>>

\* lines 39-40: Model(...) or KaldiRecognizer(...) raises
CreateSessionFails ==
    /\ pc = "init"
    /\ pc' = "raised"
    /\ error' = "EngineInitError"
    /\ UNCHANGED <<audio_len, sample_rate, i, subtitles, segment_start, retval, fed, results>>

\* Faulty variant of ProcessWindowNotFinal: a non-final answer advances the offset.
ProcessWindowNotFinalAdvances ==
    /\ pc = "loop"
    /\ MoreWindows(i)
    /\ fed' = Append(fed, Chunk(i))
    /\ results' = Append(results, NotFinal)
    /\ segment_start' = segment_start + SegmentStep
    /\ i' = i + chunk_size
    /\ UNCHANGED <<pc, audio_len, sample_rate, subtitles, retval, error>>

\* lines 48-50: AcceptWaveform returns False, the body of the if is skipped
ProcessWindowNotFinal ==
    /\ pc = "loop"
    /\ MoreWindows(i)
    /\ fed' = Append(fed, Chunk(i))
    /\ results' = Append(results, NotFinal)
    /\ i' = i + chunk_size
    /\ UNCHANGED <<pc, audio_len, sample_rate, subtitles, segment_start, retval, error>>

\* lines 48-61: AcceptWaveform returns True and the result is decoded
ProcessWindowFinal ==
    /\ pc = "loop"
    /\ MoreWindows(i)
    /\ \E text \in Texts, words \in WordLists :
        /\ fed' = Append(fed, Chunk(i))
        /\ results' = Append(results, FinalResult(text, words))
        /\ IF TextIsNonEmpty(text)
           THEN /\ subtitles' = subtitles \o EmitWords(segment_start, words)
                /\ segment_start' = AdvanceOffset(segment_start, words)
           ELSE UNCHANGED <<subtitles, segment_start>>
    /\ i' = i + chunk_size
    /\ UNCHANGED <<pc, audio_len, sample_rate, retval, error>>

\* Faulty variant of ProcessWindowFails: the exception is caught and the loop goes on.
ProcessWindowFailureSwallowed ==
    /\ pc = "loop"
    /\ MoreWindows(i)
    /\ fed' = Append(fed, Chunk(i))
    /\ results' = Append(results, Failure)
    /\ i' = i + chunk_size
    /\ UNCHANGED <<pc, audio_len, sample_rate, subtitles, segment_start, retval, error>>

\* lines 48-50: AcceptWaveform raises; nothing catches it, so it leaves the function
ProcessWindowFails ==
    /\ pc = "loop"
    /\ MoreWindows(i)
    /\ fed' = Append(fed, Chunk(i))
    /\ results' = Append(results, Failure)
    /\ pc' = "raised"
    /\ error' = "EngineRuntimeError"
    /\ UNCHANGED <<audio_len, sample_rate, i, subtitles, segment_start, retval>>

\* lines 48 and 64: the range is exhausted and the list is returned
Return ==
    /\ pc = "loop"
    /\ ~MoreWindows(i)
    /\ pc' = "returned"
    /\ retval' = [has |-> TRUE, val |-> subtitles]
    /\ UNCHANGED <<audio_len, sample_rate, i, subtitles, segment_start, error, fed, results>>

Next ==
    \/ CreateSession
    \/ CreateSessionFails
    \/ ProcessWindowNotFinal
    \/ ProcessWindowFinal
    \/ ProcessWindowFails
    \/ Return

Spec == Init /\ [][Next]_vars

-----------------------------------------------------------------------------
(* Vocabulary of the properties *)

\* The text has a character that is not whitespace.
HasNonSpace(text) == \E k \in 1..Len(text) : ~IsSpace(text[k])

\* A finalized result with non-empty, non-whitespace text.
Qualifies(r) == r.kind = "final" /\ HasNonSpace(r.text)

\* How many of the first n answers qualify.
QualifyingBefore(n) == Cardinality({k \in 1..n : Qualifies(results[k])})

\* A window has just been processed by this step.
Processed == Len(results') = Len(results) + 1

LastResult == results[Len(results)]

Terminated == pc \in {"returned", "raised"}

\* ceil(n / w) for n >= 0, w > 0
CeilDiv(n, w) == (n + w - 1) \div w

\* The words a sequence of answers must produce, starting at offset off.
RECURSIVE ExpectedFrom(_, _)
ExpectedFrom(rs, off) ==
    IF rs = << >> THEN << >>
    ELSE IF Qualifies(Head(rs))
         THEN [k \in 1..Len(Head(rs).words) |->
                 <<off + Head(rs).words[k].start,
                   off + Head(rs).words[k].end,
                   Head(rs).words[k].word>>]
              \o ExpectedFrom(Tail(rs), off + SegmentStep)
         ELSE ExpectedFrom(Tail(rs), off)

\* The literal scenario: not final; final "hello world" with its two words;
\* final with empty text.
ScenarioResults ==
    << NotFinal,
       FinalResult(HelloWorldText,
                   << [word |-> "hello", start |-> 0, end |-> 4],
                      [word |-> "world", start |-> 5, end |-> 9] >>),
       FinalResult(EmptyText, << >>) >>

-----------------------------------------------------------------------------
(* C1 *)

\* C1: the returned sequence is non-decreasing in start: every entry starts no
\* earlier than the entry before it, also across two finalized results.
C1_OrderingInvariant ==
    retval.has =>
        \A k \in 1..(Len(retval.val) - 1) : retval.val[k][1] <= retval.val[k + 1][1]

-----------------------------------------------------------------------------
(* C2 *)

\* C2: at every point of the loop, every entry appended so far has
\* end >= start >= 0, and so has every entry of the returned sequence.
C2_ValidityInvariant ==
    /\ \A k \in 1..Len(subtitles) :
          subtitles[k][2] >= subtitles[k][1] /\ subtitles[k][1] >= 0
    /\ \A k \in 1..Len(retval.val) :
          retval.val[k][2] >= retval.val[k][1] /\ retval.val[k][1] >= 0

\* Entries of two finalized results are in the list, the later ones shifted by
\* a non-zero offset.
C2_Witness ==
    /\ QualifyingBefore(Len(results)) >= 2
    /\ Len(subtitles) >= 3
    /\ subtitles[Len(subtitles)][1] >= SegmentStep

-----------------------------------------------------------------------------
(* C3 *)

\* C3: no two consecutive entries of the returned sequence overlap: the earlier
\* entry ends no later than the next one starts.
C3_NoOverlap ==
    retval.has =>
        \A k \in 1..(Len(retval.val) - 1) : retval.val[k][2] <= retval.val[k + 1][1]

-----------------------------------------------------------------------------
(* C4 *)

\* C4: segment_start starts at 0, never decreases, and after any number of
\* processed windows equals the step times the number of those windows whose
\* result was finalized with non-whitespace text, whatever the number of words
\* (zero included) each such result carried.
C4_OffsetMonotonicity ==
    /\ [](segment_start = SegmentStep * QualifyingBefore(Len(results)))
    /\ [][segment_start' >= segment_start]_vars

\* Two qualifying results, one with no word at all and one with two words,
\* have each advanced the offset once.
C4_Witness ==
    /\ segment_start = 2 * SegmentStep
    /\ \E k \in 1..Len(results) : Qualifies(results[k]) /\ Len(results[k].words) = 0
    /\ \E k \in 1..Len(results) : Qualifies(results[k]) /\ Len(results[k].words) = 2

-----------------------------------------------------------------------------
(* C5 *)

\* C5: when the feed of a window fails, the function is left with
\* EngineRuntimeError and nothing is returned, although entries may have been
\* accumulated; the failed window is the last one fed, it was fed once, and
\* from then on no window is fed and no value is returned.
C5_FeedFailureFatal ==
    /\ [](\A k \in 1..Len(results) :
            results[k].kind = "error" =>
                /\ k = Len(results)
                /\ Len(fed) = Len(results)
                /\ \A j \in 1..(k - 1) : fed[j] # fed[k]
                /\ pc = "raised"
                /\ error = "EngineRuntimeError"
                /\ retval = NoReturn)
    /\ [][error = "EngineRuntimeError" => (fed' = fed /\ results' = results /\ retval' = retval)]_vars

\* The feed of window 2 of 3 failed after window 1 had produced entries.
C5_Witness ==
    /\ audio_len > 2 * chunk_size
    /\ Len(results) = 2
    /\ results[2].kind = "error"
    /\ Len(subtitles) > 0
    /\ pc = "raised"

-----------------------------------------------------------------------------
(* C6 *)

-----------------------------------------------------------------------------
(* C7 *)

\* C7: processing a window whose result is finalized with empty or
\* whitespace-only text changes neither the accumulated entries nor
\* segment_start, whatever word list the result carries.
C7_SilenceLaw ==
    [][(/\ Processed
        /\ results'[Len(results')].kind = "final"
        /\ ~HasNonSpace(results'[Len(results')].text))
       => (subtitles' = subtitles /\ segment_start' = segment_start)]_vars

\* A whitespace-only finalized result carrying words was processed after
\* entries had been accumulated.
C7_Witness ==
    /\ Len(results) >= 2
    /\ LastResult.kind = "final"
    /\ LastResult.text = BlankText
    /\ Len(LastResult.words) > 0
    /\ Len(subtitles) > 0
    /\ segment_start = SegmentStep * QualifyingBefore(Len(results) - 1)

-----------------------------------------------------------------------------
(* C8 *)

\* C8: the accumulated list, and the list returned, is exactly the
\* concatenation in window order, over the qualifying results, of the
\* result's words in engine order, each shifted by the offset in force before
\* that result; nothing else is emitted.  In the literal 3-window scenario
\* the output is (0,4,hello), (5,9,world) and segment_start ends at 30.
C8_ExactOutput ==
    /\ subtitles = ExpectedFrom(results, 0)
    /\ (retval.has => retval.val = ExpectedFrom(results, 0))
    /\ (retval.has /\ results = ScenarioResults =>
          /\ retval.val = << <<0, 4, "hello">>, <<5, 9, "world">> >>
          /\ segment_start = SegmentStep)

\* The literal scenario has run to its return on the 20000-sample buffer.
C8_Witness ==
    /\ retval.has
    /\ audio_len = 2 * chunk_size + (chunk_size \div 2)
    /\ sample_rate = 16000
    /\ results = ScenarioResults

-----------------------------------------------------------------------------
(* C9 *)

\* C9: the windows fed are, in order, the ranges [j*W, min((j+1)*W, N)) for
\* j = 0, 1, ...: non-empty, each starting where the one before ended, all of
\* length W except possibly the last; a run that returns has fed exactly
\* ceil(N / W) of them, the last ending at N; and the loop can take no further
\* window once ceil(N / W) have been fed, when the return is its only step.
C9_Windowing ==
    /\ Len(fed) = Len(results)
    /\ Len(fed) <= CeilDiv(audio_len, chunk_size)
    /\ \A j \in 1..Len(fed) :
          /\ fed[j].lo = (j - 1) * chunk_size
          /\ fed[j].hi = Min(j * chunk_size, audio_len)
          /\ fed[j].lo < fed[j].hi
          /\ fed[j].lo = (IF j = 1 THEN 0 ELSE fed[j - 1].hi)
          /\ (j < CeilDiv(audio_len, chunk_size) => fed[j].hi - fed[j].lo = chunk_size)
    /\ (retval.has =>
          /\ Len(fed) = CeilDiv(audio_len, chunk_size)
          /\ (audio_len > 0 => fed[Len(fed)].hi = audio_len))
    /\ (pc = "loop" =>
          IF Len(fed) = CeilDiv(audio_len, chunk_size)
          THEN /\ ENABLED Return
               /\ ~ENABLED ProcessWindowNotFinal
               /\ ~ENABLED ProcessWindowFinal
               /\ ~ENABLED ProcessWindowFails
          ELSE ~ENABLED Return)

\* The 20000-sample buffer was fed as three windows, the last one short.
C9_Witness ==
    /\ retval.has
    /\ audio_len = 2 * chunk_size + (chunk_size \div 2)
    /\ Len(fed) = 3
    /\ fed[3].hi - fed[3].lo = chunk_size \div 2

-----------------------------------------------------------------------------
(* C10 *)

\* C10: processing a window whose result is not final changes neither the
\* accumulated entries nor segment_start, raises no error and returns nothing:
\* the loop goes on to the next window.
C10_NonFinalDiscarded ==
    [][(Processed /\ results'[Len(results')].kind = "notfinal")
       => /\ subtitles' = subtitles
          /\ segment_start' = segment_start
          /\ error' = "none"
          /\ retval' = retval
          /\ pc' = "loop"
          /\ i' = i + chunk_size]_vars

\* A non-final answer came after entries had been accumulated, and the loop
\* stands before the next window.
C10_Witness ==
    /\ pc = "loop"
    /\ MoreWindows(i)
    /\ Len(results) >= 2
    /\ LastResult.kind = "notfinal"
    /\ Len(subtitles) > 0
    /\ segment_start > 0

====
